---- MODULE Spec2Model ----
(***************************************************************************)
(* LNURL-pay links: the link repository (crud.py) and the LNURL protocol   *)
(* handlers (lnurl.py).  The pay_links table is a set of rows; a request   *)
(* is a process whose steps are the storage statements its handler awaits. *)
(***************************************************************************)
EXTENDS Integers, Sequences, FiniteSets, TLC

\* ------------------------------------------------------------------ bounds
\* Largest value a served_* counter is driven to.
MaxServed == 2
\* Private keys PrivateKey() is asked for.
MaxKeys == 2

\* Concurrent requests.
Procs == {"p1", "p2"}
\* The values urlsafe_short_hash()[:6] can return.
Ids == {"aaaaaa", "bbbbbb"}
Wallets == {"w1"}

\* ------------------------------------------------------- program constants
FluctuationLow == 995
FluctuationHigh == 1010
MsatPerSat == 1000

\* ------------------------------------------------------------------ values
\* Python None for an optional string field.
NoName == "<None>"
NoCurrency == "<None>"

\* Python truthiness of an optional string: None and "" are falsy.
Truthy(s) == s # NoName /\ s # ""

\* CreatePayLinkData values the creation requests are drawn from.
CreateInputs ==
    { [username |-> NoName, min |-> 10, max |-> 1000, currency |-> NoCurrency,
       comment_chars |-> 0, description |-> "tips"],
      [username |-> "alice", min |-> 1, max |-> 5, currency |-> "USD",
       comment_chars |-> 2, description |-> "shop"],
      [username |-> "bad name", min |-> 10, max |-> 1000, currency |-> NoCurrency,
       comment_chars |-> 0, description |-> "tips"] }

\* Field maps (**kwargs) the update requests are drawn from.
UpdateMaps ==
    { [username |-> "alice"],
      [served_meta |-> 0] }

\* Field maps of the repository-level update calls: also an empty username,
\* a second username and the id column.
RepositoryUpdateMaps ==
    UpdateMaps \cup { [username |-> ""], [username |-> "bob"], [id |-> "bbbbbb"] }

\* (field, delta) pairs the direct increment_pay_link calls are drawn from.
IncrementMaps ==
    { [field |-> "served_meta", delta |-> 1],
      [field |-> "served_meta", delta |-> -1] }

\* Usernames looked up through the address entry point.
LookupNames == {"alice", "bob"}

\* The "amount" query parameter: absent, or an integer (msat).
NoAmount == [present |-> FALSE, value |-> 0]
Amounts ==
    { NoAmount } \cup
    { [present |-> TRUE, value |-> v] :
        v \in { 5000, 9999, 10000, 15000, 1000000, 1000001,
                49749999, 49750000, 252500000, 252500001,
                16000, 16417, 16418, 83325, 83326 } }

\* The "comment" query parameter: absent, or a string (its characters).
NoComment == [present |-> FALSE, text |-> << >>]
Comments ==
    { NoComment,
      [present |-> TRUE, text |-> << >>],
      [present |-> TRUE, text |-> <<"h", "i">>],
      [present |-> TRUE, text |-> <<"h", "e", "y">>] }

\* get_fiat_rate_satoshis results: satoshis per unit of currency, num/den.
Rates == { [num |-> 50000, den |-> 1], [num |-> 33, den |-> 2] }
\* rate = 1 for a link without currency (lnurl.py line 92, 120).
UnitRate == [num |-> 1, den |-> 1]

\* Private keys an update request may carry: one the generator never
\* returns, and one it does.
UpdateKeys == {0, 1}

\* Relay lists an update request may carry.
RelayLists == { << >>, <<"wss://r1">>, <<"wss://r1", "wss://r2">> }

\* The relay file: absent, or its lines.
NoFile == [exists |-> FALSE, lines |-> << >>]
FileOf(lines) == [exists |-> TRUE, lines |-> lines]

VARIABLES
    links,      \* lnurlp.pay_links: the set of rows
    pc,         \* pc[p]: where request p stands in its handler
    ctx,        \* ctx[p]: the handler's arguments, locals and response
    dueMeta,    \* history: per id, served_meta at creation or last update plus
                \* the deltas of the increment calls invoked since
    settingsRows,   \* lnurlp.settings: its rows (nostr_private_key), in order
    relayPath,      \* lnbits_nostr2http_relays_filepath is configured
    relayFile,      \* the file at that path
    keysMade,       \* PrivateKey() calls so far; the n-th call returns key n
    undisturbed     \* history: no settings update or delete was called yet

settingsVars == <<settingsRows, relayPath, relayFile, keysMade, undisturbed>>

vars == <<links, pc, ctx, dueMeta, settingsRows, relayPath, relayFile, keysMade,
          undisturbed>>

Idle == [op |-> "none"]

\* ------------------------------------------------------------ the storage
\* SELECT * FROM lnurlp.pay_links WHERE id = ?
GetPayLink(ls, link_id) == { r \in ls : r.id = link_id }

\* SELECT * FROM lnurlp.pay_links WHERE username = ?
GetAddressData(ls, username) == { r \in ls : r.username = username }

\* The lookup left out: every username passes.
CheckLnaddressNotExistsSkipped(ls, username) == TRUE

\* check_lnaddress_not_exists: TRUE when no row holds the username.
CheckLnaddressNotExists(ls, username) == GetAddressData(ls, username) = {}

\* check_lnaddress_format: the address rule of services.py.
CheckLnaddressFormat(username) == username # "bad name"

\* The table is keyed by id: an INSERT of an id already stored is refused.
PrimaryKeyFree(ls, link_id) == GetPayLink(ls, link_id) = {}

\* A row whose min and max columns took each other's value.
NewRowSwapped(link_id, wallet_id, data) ==
    [id |-> link_id, wallet |-> wallet_id, username |-> data.username,
     min |-> data.max, max |-> data.min, currency |-> data.currency,
     comment_chars |-> data.comment_chars, description |-> data.description,
     served_meta |-> 0, served_pr |-> 0]

\* The row INSERTed by create_pay_link: both counters start at 0.
NewRow(link_id, wallet_id, data) ==
    [id |-> link_id, wallet |-> wallet_id, username |-> data.username,
     min |-> data.min, max |-> data.max, currency |-> data.currency,
     comment_chars |-> data.comment_chars, description |-> data.description,
     served_meta |-> 0, served_pr |-> 0]

\* UPDATE ... SET f = ? for each f of kwargs, on one row.
SetFields(row, kwargs) ==
    [f \in DOMAIN row |-> IF f \in DOMAIN kwargs THEN kwargs[f] ELSE row[f]]

\* UPDATE lnurlp.pay_links SET <kwargs> WHERE id = ?
UpdateRows(ls, link_id, kwargs) ==
    { IF r.id = link_id THEN SetFields(r, kwargs) ELSE r : r \in ls }

\* SET field = ? on one row: the delta written over the stored value.
AddFieldLost(row, field, delta) == [row EXCEPT ![field] = delta]

\* SET field = field + ? on one row.
AddField(row, field, delta) == [row EXCEPT ![field] = @ + delta]

\* UPDATE lnurlp.pay_links SET field = field + ? WHERE id = ?
IncrementRows(ls, link_id, field, delta) ==
    { IF r.id = link_id THEN AddField(r, field, delta) ELSE r : r \in ls }

\* DELETE FROM lnurlp.pay_links WHERE id = ?
DeleteRows(ls, link_id) == { r \in ls : r.id # link_id }

\* ------------------------------------------------------------- bookkeeping
\* Requests that have called increment_pay_link(id, field=delta) and whose
\* UPDATE has not run yet.
InFlight(link_id, field) ==
    { p \in Procs : pc[p] = "inc_update" /\ ctx[p].id = link_id
                    /\ ctx[p].field = field }

RECURSIVE SumDelta(_)
SumDelta(ps) ==
    IF ps = {} THEN 0
    ELSE LET p == CHOOSE q \in ps : TRUE IN ctx[p].delta + SumDelta(ps \ {p})

Stored(ls, link_id, field) ==
    IF GetPayLink(ls, link_id) = {} THEN 0
    ELSE (CHOOSE r \in GetPayLink(ls, link_id) : TRUE)[field]

\* A further increment call keeps the counter within 0 .. MaxServed.
CounterRoom(link_id, field, delta) ==
    LET v == Stored(links, link_id, field) + SumDelta(InFlight(link_id, field)) IN
    /\ v + delta <= MaxServed
    /\ v + delta >= 0
    /\ \A q \in InFlight(link_id, field) : ctx[q].delta = delta

\* A fresh install: no link, no settings row, no request in progress.
InitLinks ==
    /\ links = {}
    /\ pc = [p \in Procs |-> "idle"]
    /\ ctx = [p \in Procs |-> Idle]
    /\ dueMeta = [i \in Ids |-> 0]
    /\ settingsRows = << >>
    /\ keysMade = 0
    /\ undisturbed = TRUE

Init ==
    /\ InitLinks
    /\ relayPath = TRUE
    /\ relayFile = NoFile

Finish(p, c) ==
    /\ pc' = [pc EXCEPT ![p] = "done"]
    /\ ctx' = [ctx EXCEPT ![p] = c]

Goto(p, label, c) ==
    /\ pc' = [pc EXCEPT ![p] = label]
    /\ ctx' = [ctx EXCEPT ![p] = c]

\* ------------------------------------------------------ create_pay_link
\* Lines 65-67: a truthy username is format-checked, then looked up.
CreateCheck(p) ==
    /\ pc[p] = "idle"
    /\ \E data \in CreateInputs, wallet_id \in Wallets :
        /\ Truthy(data.username)
        /\ LET c == [op |-> "create", data |-> data, wallet |-> wallet_id] IN
           IF ~CheckLnaddressFormat(data.username)
           THEN Finish(p, c @@ [resp |-> "invalid_format"])
           ELSE IF ~CheckLnaddressNotExists(links, data.username)
           THEN Finish(p, c @@ [resp |-> "username_taken"])
           ELSE Goto(p, "create_insert", c)
    /\ UNCHANGED <<links, dueMeta>>

\* Lines 69-113: the id is drawn and the row INSERTed.  A request without a
\* truthy username starts here.
CreateInsert(p) ==
    \E data \in CreateInputs, wallet_id \in Wallets, link_id \in Ids :
        /\ \/ /\ pc[p] = "create_insert"
              /\ data = ctx[p].data
              /\ wallet_id = ctx[p].wallet
           \/ /\ pc[p] = "idle"
              /\ ~Truthy(data.username)
        /\ LET c == [op |-> "create", data |-> data, wallet |-> wallet_id,
                     id |-> link_id] IN
           IF PrimaryKeyFree(links, link_id)
           THEN /\ links' = links \cup {NewRow(link_id, wallet_id, data)}
                /\ dueMeta' = [dueMeta EXCEPT
                       ![link_id] = SumDelta(InFlight(link_id, "served_meta"))]
                /\ Goto(p, "create_get", c)
           ELSE /\ Finish(p, c @@ [resp |-> "integrity_error"])
                /\ UNCHANGED <<links, dueMeta>>

\* Lines 115-117: the new row is read back and returned.
CreateGet(p) ==
    /\ pc[p] = "create_get"
    /\ \/ /\ GetPayLink(links, ctx[p].id) = {}
          /\ Finish(p, ctx[p] @@ [resp |-> "assertion_error", link |-> {}])
       \/ \E row \in GetPayLink(links, ctx[p].id) :
             Finish(p, ctx[p] @@ [resp |-> "ok", link |-> {row}])
    /\ UNCHANGED <<links, dueMeta>>

\* ------------------------------------------------------ update_pay_link
UsernameGivenAlways(kwargs) == "username" \in DOMAIN kwargs

UsernameGiven(kwargs) ==
    "username" \in DOMAIN kwargs /\ Truthy(kwargs.username)

\* Lines 148-150: a non-empty username among the fields is checked.
UpdateCheckOf(p, maps) ==
    /\ pc[p] = "idle"
    /\ \E link_id \in Ids, kwargs \in maps :
        /\ UsernameGiven(kwargs)
        /\ LET c == [op |-> "update", id |-> link_id, kwargs |-> kwargs] IN
           IF ~CheckLnaddressFormat(kwargs.username)
           THEN Finish(p, c @@ [resp |-> "invalid_format"])
           ELSE IF ~CheckLnaddressNotExists(links, kwargs.username)
           THEN Finish(p, c @@ [resp |-> "username_taken"])
           ELSE Goto(p, "update_exec", c)
    /\ UNCHANGED <<links, dueMeta>>

UpdateCheck(p) == UpdateCheckOf(p, UpdateMaps)

\* The UPDATE moves a stored row to another id.
MovesId(ls, link_id, kwargs) ==
    /\ "id" \in DOMAIN kwargs
    /\ kwargs.id # link_id
    /\ GetPayLink(ls, link_id) # {}

\* Lines 152-155: the UPDATE statement, refused when it moves the row onto a
\* stored id.  A request without a non-empty username starts here.
UpdateExecOf(p, maps) ==
    \E link_id \in Ids, kwargs \in maps :
        /\ \/ /\ pc[p] = "update_exec"
              /\ link_id = ctx[p].id
              /\ kwargs = ctx[p].kwargs
           \/ /\ pc[p] = "idle"
              /\ ~UsernameGiven(kwargs)
        /\ LET c == [op |-> "update", id |-> link_id, kwargs |-> kwargs] IN
           IF MovesId(links, link_id, kwargs) /\ ~PrimaryKeyFree(links, kwargs.id)
           THEN /\ Finish(p, c @@ [resp |-> "integrity_error"])
                /\ UNCHANGED <<links, dueMeta>>
           ELSE /\ links' = UpdateRows(links, link_id, kwargs)
                /\ dueMeta' =
                     IF MovesId(links, link_id, kwargs)
                     THEN [dueMeta EXCEPT ![kwargs.id] =
                             (CHOOSE r \in GetPayLink(links, link_id) : TRUE).served_meta
                             + SumDelta(InFlight(kwargs.id, "served_meta"))]
                     ELSE IF "served_meta" \in DOMAIN kwargs
                             /\ GetPayLink(links, link_id) # {}
                     THEN [dueMeta EXCEPT ![link_id] =
                             kwargs.served_meta
                             + SumDelta(InFlight(link_id, "served_meta"))]
                     ELSE dueMeta
                /\ Goto(p, "update_get", c)

UpdateExec(p) == UpdateExecOf(p, UpdateMaps)

\* Lines 156-157: the row is read back; the caller is told whether one was
\* found.
UpdateGet(p) ==
    /\ pc[p] = "update_get"
    /\ Finish(p, ctx[p] @@ [resp |-> IF GetPayLink(links, ctx[p].id) = {}
                                      THEN "none" ELSE "ok"])
    /\ UNCHANGED <<links, dueMeta>>

\* ------------------------------------------------------ delete_pay_link
\* Line 170: one DELETE statement, nothing returned.
DeletePayLink(p) ==
    /\ pc[p] = "idle"
    /\ \E link_id \in Ids :
        /\ links' = DeleteRows(links, link_id)
        /\ dueMeta' = [dueMeta EXCEPT ![link_id] = 0]
    /\ UNCHANGED <<pc, ctx>>

\* --------------------------------------------------- increment_pay_link
\* The call: the statement text is built (line 161) and the UPDATE awaited.
CallIncrement(p, op, link_id, kw) ==
    /\ pc[p] = "idle"
    /\ CounterRoom(link_id, kw.field, kw.delta)
    /\ Goto(p, "inc_update",
            [op |-> op, id |-> link_id, field |-> kw.field, delta |-> kw.delta])
    /\ dueMeta' =
         IF kw.field = "served_meta" /\ GetPayLink(links, link_id) # {}
         THEN [dueMeta EXCEPT ![link_id] = @ + kw.delta]
         ELSE dueMeta
    /\ UNCHANGED links

\* A direct call of increment_pay_link.
IncrementCall(p) ==
    \E link_id \in Ids, kw \in IncrementMaps :
        CallIncrement(p, "increment", link_id, kw)

\* Lines 162-164: the UPDATE statement; hit records whether a row matched.
IncrementUpdate(p) ==
    /\ pc[p] = "inc_update"
    /\ links' = IncrementRows(links, ctx[p].id, ctx[p].field, ctx[p].delta)
    /\ Goto(p, "inc_get", ctx[p] @@ [hit |-> GetPayLink(links, ctx[p].id) # {}])
    /\ UNCHANGED dueMeta

\* Lines 165-166 for a direct call: the row is read back; the caller is
\* told whether one was found.
IncrementGet(p) ==
    /\ pc[p] = "inc_get"
    /\ ctx[p].op = "increment"
    /\ Finish(p, ctx[p] @@ [resp |-> IF GetPayLink(links, ctx[p].id) = {}
                                      THEN "none" ELSE "ok"])
    /\ UNCHANGED <<links, dueMeta>>

\* The response has been sent.
Return(p) ==
    /\ pc[p] = "done"
    /\ pc' = [pc EXCEPT ![p] = "idle"]
    /\ ctx' = [ctx EXCEPT ![p] = Idle]
    /\ UNCHANGED <<links, dueMeta>>

\* ------------------------------------------------------------ arithmetic
\* Python round() of the rational n/d (n >= 0, d > 0): to nearest, ties to
\* the even integer.
PyRound(n, d) ==
    LET q == n \div d
        r == n % d
    IN IF 2 * r < d THEN q
       ELSE IF 2 * r > d THEN q + 1
       ELSE IF q % 2 = 0 THEN q ELSE q + 1

\* int(request.query_params.get("amount") or 0)
AmountReceived(amount) == IF amount.present THEN amount.value ELSE 0

\* len(comment or "")
CommentLen(comment) == IF comment.present THEN Len(comment.text) ELSE 0

\* The rates get_fiat_rate_satoshis may return for the link; 1 without currency.
RatesFor(row) == IF row.currency # NoCurrency THEN Rates ELSE {UnitRate}

\* Domains the requests arrive on.
Domains == {"pay.example"}

\* No domain at hand.
NoDomain == ""

\* PayLink.lnurlpay_metadata: the description, and the address identifier
\* when the link has a username and a domain is at hand.
LnurlpayMetadata(row, domain) ==
    [text |-> row.description,
     identifier |-> IF Truthy(row.username) /\ domain # NoDomain
                    THEN <<row.username, domain>> ELSE << >>]

\* link.lnurlpay_metadata read without a domain.
LnurlpayMetadataAttribute(row) == LnurlpayMetadata(row, NoDomain)

\* str.encode(): the bytes of the string.
Encode(string) == [utf8 |-> string]

\* ---------------------------------------- lnurl_response (address lookup)
\* Lines 17-34: one read; the error is a payload, the transport status is OK.
LnurlResponse(p) ==
    /\ pc[p] = "idle"
    /\ \E username \in LookupNames, domain \in Domains :
        LET c == [op |-> "address", username |-> username, hit |-> FALSE,
                  invoice |-> FALSE, domain |-> domain] IN
        \/ /\ GetAddressData(links, username) = {}
           /\ Finish(p, c @@ [http |-> 200, body |-> "ERROR", link |-> {}])
        \/ \E row \in GetAddressData(links, username) :
              Finish(p, c @@ [http |-> 200, body |-> "payRequest", link |-> {row},
                              metadata |-> LnurlpayMetadata(row, domain),
                              minSendable |-> row.min * MsatPerSat,
                              maxSendable |-> row.max * MsatPerSat])
    /\ UNCHANGED <<links, dueMeta>>

\* ------------------------------- api_lnurl_response (direct-id Pay Request)
\* Lines 96-97: round(link.min * rate) * 1000 and round(link.max * rate) * 1000
MinSendable(row, rate) == PyRound(row.min * rate.num, rate.den) * MsatPerSat

MaxSendable(row, rate) == PyRound(row.max * rate.num, rate.den) * MsatPerSat

\* Line 86: increment_pay_link(link_id, served_meta=1)
ResponseKwargs == [field |-> "served_meta", delta |-> 1]

ApiLnurlResponseCall(p) ==
    \E link_id \in Ids : CallIncrement(p, "response", link_id, ResponseKwargs)

\* Lines 165-166 then 87-105: the row is read back; 404 without one, else the
\* Pay Request response at the rate read now.
ApiLnurlResponse(p) ==
    /\ pc[p] = "inc_get"
    /\ ctx[p].op = "response"
    /\ LET c == ctx[p] @@ [invoice |-> FALSE] IN
       \/ /\ GetPayLink(links, ctx[p].id) = {}
          /\ Finish(p, c @@ [http |-> 404, body |-> "Pay link does not exist.",
                             link |-> {}])
       \/ \E row \in GetPayLink(links, ctx[p].id) : \E rate \in RatesFor(row) :
             Finish(p, c @@ [http |-> 200, body |-> "payRequest", link |-> {row},
                   rate |-> rate,
                   metadata |-> LnurlpayMetadataAttribute(row),
                   minSendable |-> MinSendable(row, rate),
                   maxSendable |-> MaxSendable(row, rate),
                   commentAllowed |-> IF row.comment_chars > 0
                                      THEN row.comment_chars ELSE 0])
    /\ UNCHANGED <<links, dueMeta>>

\* --------------------- api_lnurl_callback, first definition (lines 43-73)
\* Registered first on /api/v1/lnurl/cb/{link_id}.  One read, then the
\* invoice; amount is a required integer query parameter, and a comment
\* parameter of the request is not read.
ApiLnurlCallbackFirst(p) ==
    /\ pc[p] = "idle"
    /\ \E link_id \in Ids, amount \in Amounts, comment \in Comments,
          domain \in Domains :
        LET c == [op |-> "callback_first", id |-> link_id, amount |-> amount,
                  comment |-> comment, hit |-> FALSE, domain |-> domain] IN
        IF ~amount.present
        THEN Finish(p, c @@ [http |-> 422, body |-> "validation", link |-> {},
                             invoice |-> FALSE])
        ELSE \/ /\ GetPayLink(links, link_id) = {}
                /\ Finish(p, c @@ [http |-> 200, body |-> "ERROR", link |-> {},
                                   invoice |-> FALSE])
             \/ \E row \in GetPayLink(links, link_id) :
                   Finish(p, c @@ [http |-> 200, body |-> "pr", link |-> {row},
                                   invoice |-> TRUE,
                                   unhashed_description |->
                                       Encode(LnurlpayMetadata(row, domain))])
    /\ UNCHANGED <<links, dueMeta>>

\* ------------------- api_lnurl_callback, second definition (lines 113-167)
\* Line 114: increment_pay_link(link_id, served_pr=1)
CallbackKwargs == [field |-> "served_pr", delta |-> 1]

ApiLnurlCallbackCall(p) ==
    \E link_id \in Ids : CallIncrement(p, "callback", link_id, CallbackKwargs)

\* Lines 119-127: the bounds as the rationals num/den (msat).
CallbackMin(row, rate) ==
    IF row.currency # NoCurrency
    THEN [num |-> rate.num * FluctuationLow * row.min, den |-> rate.den]
    ELSE [num |-> row.min * MsatPerSat, den |-> 1]

CallbackMax(row, rate) ==
    IF row.currency # NoCurrency
    THEN [num |-> rate.num * FluctuationHigh * row.max, den |-> rate.den]
    ELSE [num |-> row.max * MsatPerSat, den |-> 1]

\* Lines 129-157: what the handler answers for the row it read.
CallbackAnswer(row, rate, amount, comment) ==
    LET lo == CallbackMin(row, rate)
        hi == CallbackMax(row, rate)
        a  == AmountReceived(amount)
    IN IF a * lo.den < lo.num THEN "ERROR_min"
       ELSE IF a * hi.den > hi.num THEN "ERROR_max"
       ELSE IF CommentLen(comment) > row.comment_chars THEN "ERROR_comment"
       ELSE "pr"

\* Lines 165-166 then 115-167: the row is read back; 404 without one, else
\* the amount and the comment are checked and the invoice requested.
ApiLnurlCallback(p) ==
    /\ pc[p] = "inc_get"
    /\ ctx[p].op = "callback"
    /\ \E amount \in Amounts, comment \in Comments, domain \in Domains :
        LET c == ctx[p] @@ [amount |-> amount, comment |-> comment,
                            domain |-> domain] IN
        \/ /\ GetPayLink(links, ctx[p].id) = {}
           /\ Finish(p, c @@ [http |-> 404, body |-> "Pay link does not exist.",
                              link |-> {}, invoice |-> FALSE])
        \/ \E row \in GetPayLink(links, ctx[p].id) : \E rate \in RatesFor(row) :
              LET answer == CallbackAnswer(row, rate, amount, comment) IN
              Finish(p, c @@ [http |-> 200, body |-> answer, link |-> {row},
                              rate |-> rate, invoice |-> (answer = "pr"),
                              unhashed_description |->
                                  Encode(LnurlpayMetadataAttribute(row))])
    /\ UNCHANGED <<links, dueMeta>>

\* ============================================================== settings
\* SELECT * FROM lnurlp.settings LIMIT 1: no row, or one of the rows.
FetchSettings(rows) == { rows[i] : i \in DOMAIN rows }

\* update_query with an empty WHERE: every row takes the new key.
UpdateSettingsRows(rows, key) == [i \in DOMAIN rows |-> key]

DeleteSettingsRowsKept(rows) == rows

\* DELETE FROM lnurlp.settings: no row is left.
DeleteSettingsRows(rows) == << >>

\* ------------------------------------------ get_or_create_lnurlp_settings
\* Lines 14-25: the row is fetched and the relay file, if any, is read into
\* `lines`, which nothing uses: the relay list handed back is the empty list
\* of line 15.  With a row the call returns it; without one a key is
\* generated for the INSERT.
GetOrCreateFetch(p) ==
    /\ pc[p] = "idle"
    /\ LET c == [op |-> "get_or_create", relays |-> << >>] IN
       \/ /\ \E row \in FetchSettings(settingsRows) :
                Finish(p, c @@ [key |-> row, generated |-> FALSE])
          /\ UNCHANGED keysMade
       \/ /\ FetchSettings(settingsRows) = {}
          /\ keysMade < MaxKeys
          /\ keysMade' = keysMade + 1
          /\ Goto(p, "settings_insert", c @@ [key |-> keysMade + 1])
    /\ UNCHANGED <<settingsRows, relayPath, relayFile, undisturbed>>

\* Lines 26-31: the generated key is INSERTed and returned.
GetOrCreateInsert(p) ==
    /\ pc[p] = "settings_insert"
    /\ settingsRows' = Append(settingsRows, ctx[p].key)
    /\ Finish(p, ctx[p] @@ [generated |-> TRUE])
    /\ UNCHANGED <<relayPath, relayFile, keysMade, undisturbed>>

\* ---------------------------------------------- update_lnurlp_settings
\* Lines 35-36: the UPDATE of the key.
UpdateSettingsExec(p) ==
    /\ pc[p] = "idle"
    /\ \E key \in UpdateKeys, relays \in RelayLists :
        /\ settingsRows' = UpdateSettingsRows(settingsRows, key)
        /\ Goto(p, "settings_write",
                [op |-> "update_settings", key |-> key, relays |-> relays])
    /\ undisturbed' = FALSE
    /\ UNCHANGED <<relayPath, relayFile, keysMade>>

\* Lines 37-44: with a configured path the file is opened for writing, which
\* leaves it empty, and `.join` on the relay list raises AttributeError before
\* anything is written; without a path the settings are returned.
UpdateSettingsWrite(p) ==
    /\ pc[p] = "settings_write"
    /\ IF relayPath
       THEN /\ relayFile' = FileOf(<< >>)
            /\ Finish(p, ctx[p] @@ [resp |-> "AttributeError"])
       ELSE /\ UNCHANGED relayFile
            /\ Finish(p, ctx[p] @@ [resp |-> "ok"])
    /\ UNCHANGED <<settingsRows, relayPath, keysMade, undisturbed>>

\* ---------------------------------------------- delete_lnurlp_settings
\* Line 48: the DELETE.
DeleteSettingsExec(p) ==
    /\ pc[p] = "idle"
    /\ settingsRows' = DeleteSettingsRows(settingsRows)
    /\ Goto(p, "settings_remove", [op |-> "delete_settings"])
    /\ undisturbed' = FALSE
    /\ UNCHANGED <<relayPath, relayFile, keysMade>>

\* Lines 49-50: the relay file, if configured and there, is removed.
DeleteSettingsRemove(p) ==
    /\ pc[p] = "settings_remove"
    /\ relayFile' = IF relayPath /\ relayFile.exists THEN NoFile ELSE relayFile
    /\ Finish(p, ctx[p] @@ [resp |-> "ok"])
    /\ UNCHANGED <<settingsRows, relayPath, keysMade, undisturbed>>

\* The settings store alone: the relay path may or may not be configured,
\* and a configured path may already hold a file.
InitSettings ==
    /\ InitLinks
    /\ relayPath \in BOOLEAN
    /\ relayFile \in (IF relayPath THEN {NoFile, FileOf(<<"wss://r1">>)}
                                   ELSE {NoFile})

\* Settings requests served concurrently.
NextSettings ==
    \E p \in Procs :
        \/ GetOrCreateFetch(p) /\ UNCHANGED <<links, dueMeta>>
        \/ GetOrCreateInsert(p) /\ UNCHANGED <<links, dueMeta>>
        \/ UpdateSettingsExec(p) /\ UNCHANGED <<links, dueMeta>>
        \/ UpdateSettingsWrite(p) /\ UNCHANGED <<links, dueMeta>>
        \/ DeleteSettingsExec(p) /\ UNCHANGED <<links, dueMeta>>
        \/ DeleteSettingsRemove(p) /\ UNCHANGED <<links, dueMeta>>
        \/ Return(p) /\ UNCHANGED settingsVars

SpecSettings == InitSettings /\ [][NextSettings]_vars

\* Requests served concurrently: their storage statements interleave.
NextConcurrent ==
    \E p \in Procs :
        \/ CreateCheck(p) /\ UNCHANGED settingsVars
        \/ CreateInsert(p) /\ UNCHANGED settingsVars
        \/ CreateGet(p) /\ UNCHANGED settingsVars
        \/ UpdateCheck(p) /\ UNCHANGED settingsVars
        \/ UpdateExec(p) /\ UNCHANGED settingsVars
        \/ UpdateGet(p) /\ UNCHANGED settingsVars
        \/ DeletePayLink(p) /\ UNCHANGED settingsVars
        \/ IncrementCall(p) /\ UNCHANGED settingsVars
        \/ IncrementUpdate(p) /\ UNCHANGED settingsVars
        \/ IncrementGet(p) /\ UNCHANGED settingsVars
        \/ Return(p) /\ UNCHANGED settingsVars
        \/ ApiLnurlResponseCall(p) /\ UNCHANGED settingsVars
        \/ ApiLnurlResponse(p) /\ UNCHANGED settingsVars

SpecConcurrent == Init /\ [][NextConcurrent]_vars

\* One request at a time: a request starts when no other is being served.
Serial(p) == \A q \in Procs \ {p} : pc[q] = "idle"

Next ==
    \E p \in Procs :
        \/ Serial(p) /\ CreateCheck(p) /\ UNCHANGED settingsVars
        \/ Serial(p) /\ CreateInsert(p) /\ UNCHANGED settingsVars
        \/ Serial(p) /\ CreateGet(p) /\ UNCHANGED settingsVars
        \/ Serial(p) /\ UpdateCheck(p) /\ UNCHANGED settingsVars
        \/ Serial(p) /\ UpdateExec(p) /\ UNCHANGED settingsVars
        \/ Serial(p) /\ UpdateGet(p) /\ UNCHANGED settingsVars
        \/ Serial(p) /\ DeletePayLink(p) /\ UNCHANGED settingsVars
        \/ Serial(p) /\ IncrementCall(p) /\ UNCHANGED settingsVars
        \/ Serial(p) /\ IncrementUpdate(p) /\ UNCHANGED settingsVars
        \/ Serial(p) /\ IncrementGet(p) /\ UNCHANGED settingsVars
        \/ Serial(p) /\ LnurlResponse(p) /\ UNCHANGED settingsVars
        \/ Serial(p) /\ ApiLnurlResponseCall(p) /\ UNCHANGED settingsVars
        \/ Serial(p) /\ ApiLnurlResponse(p) /\ UNCHANGED settingsVars
        \/ Serial(p) /\ ApiLnurlCallbackFirst(p) /\ UNCHANGED settingsVars
        \/ Serial(p) /\ ApiLnurlCallbackCall(p) /\ UNCHANGED settingsVars
        \/ Serial(p) /\ ApiLnurlCallback(p) /\ UNCHANGED settingsVars
        \/ Serial(p) /\ Return(p) /\ UNCHANGED settingsVars

Spec == Init /\ [][Next]_vars

RepositoryUpdateCheck(p) == UpdateCheckOf(p, RepositoryUpdateMaps)

RepositoryUpdateExec(p) == UpdateExecOf(p, RepositoryUpdateMaps)

\* The link repository functions, one call at a time, with the wider field
\* maps.
NextRepository ==
    \E p \in Procs :
        \/ Serial(p) /\ CreateCheck(p) /\ UNCHANGED settingsVars
        \/ Serial(p) /\ CreateInsert(p) /\ UNCHANGED settingsVars
        \/ Serial(p) /\ CreateGet(p) /\ UNCHANGED settingsVars
        \/ Serial(p) /\ RepositoryUpdateCheck(p) /\ UNCHANGED settingsVars
        \/ Serial(p) /\ RepositoryUpdateExec(p) /\ UNCHANGED settingsVars
        \/ Serial(p) /\ UpdateGet(p) /\ UNCHANGED settingsVars
        \/ Serial(p) /\ DeletePayLink(p) /\ UNCHANGED settingsVars
        \/ Serial(p) /\ IncrementCall(p) /\ UNCHANGED settingsVars
        \/ Serial(p) /\ IncrementUpdate(p) /\ UNCHANGED settingsVars
        \/ Serial(p) /\ IncrementGet(p) /\ UNCHANGED settingsVars
        \/ Serial(p) /\ Return(p) /\ UNCHANGED settingsVars

SpecRepository == Init /\ [][NextRepository]_vars

\* Settings requests, one at a time.
NextSettingsSerial ==
    \E p \in Procs :
        \/ Serial(p) /\ GetOrCreateFetch(p) /\ UNCHANGED <<links, dueMeta>>
        \/ Serial(p) /\ GetOrCreateInsert(p) /\ UNCHANGED <<links, dueMeta>>
        \/ Serial(p) /\ UpdateSettingsExec(p) /\ UNCHANGED <<links, dueMeta>>
        \/ Serial(p) /\ UpdateSettingsWrite(p) /\ UNCHANGED <<links, dueMeta>>
        \/ Serial(p) /\ DeleteSettingsExec(p) /\ UNCHANGED <<links, dueMeta>>
        \/ Serial(p) /\ DeleteSettingsRemove(p) /\ UNCHANGED <<links, dueMeta>>
        \/ Serial(p) /\ Return(p) /\ UNCHANGED settingsVars

SpecSettingsSerial == InitSettings /\ [][NextSettingsSerial]_vars

\* ================================================================= claims
CallbackOps == {"callback_first", "callback"}

\* A request p that has just been answered.
Answered(p, ops) == pc[p] = "done" /\ ctx[p].op \in ops

\* ----------------------------------------------------------------- C1
\* C1: concurrent increment(id, served_meta=1) calls lose no update: for
\* every stored link, served_meta plus the deltas of the calls still waiting
\* for their UPDATE equals the value at creation (or last update) plus the
\* deltas of all calls invoked since; with no call waiting, N calls have
\* left served_meta exactly N higher.
C1_NoLostIncrement ==
    \A r \in links :
        r.served_meta + SumDelta(InFlight(r.id, "served_meta")) = dueMeta[r.id]

\* Two calls on the same link in progress at once, both past their UPDATE,
\* and the counter stands 2 higher than at creation.
C1_Witness ==
    \E p \in Procs : \E q \in Procs \ {p} : \E r \in links :
        /\ pc[p] = "inc_get" /\ pc[q] = "inc_get"
        /\ ctx[p].id = r.id /\ ctx[q].id = r.id
        /\ ctx[p].field = "served_meta" /\ ctx[q].field = "served_meta"
        /\ ctx[p].delta = 1 /\ ctx[q].delta = 1
        /\ ctx[p].hit /\ ctx[q].hit
        /\ r.served_meta = 2
        /\ dueMeta[r.id] = 2

\* ----------------------------------------------------------------- C2
\* C2: no two stored links hold the same non-empty username, in every
\* reachable state, concurrent create/update requests included.
C2_UsernameUnique ==
    \A r1 \in links, r2 \in links :
        (r1.id # r2.id /\ Truthy(r1.username)) => r1.username # r2.username

AmountOutsideSatBounds(c) ==
    \E row \in c.link :
        /\ row.currency = NoCurrency
        /\ \/ AmountReceived(c.amount) < row.min * MsatPerSat
           \/ AmountReceived(c.amount) > row.max * MsatPerSat

Rejected(c) == c.http = 200 /\ c.body \in {"ERROR", "ERROR_min", "ERROR_max",
                                           "ERROR_comment"} /\ ~c.invoice

\* C4: for a link without currency, a callback whose amount is below
\* min*1000 or above max*1000 is answered with a protocol error payload and
\* requests no invoice.
C4_AmountBoundsEnforced ==
    \A p \in Procs :
        (Answered(p, CallbackOps) /\ AmountOutsideSatBounds(ctx[p]))
            => Rejected(ctx[p])

\* ----------------------------------------------------------------- C5
\* The rates the callback may have read: the one it read, else any.
RatesRead(c) == IF "rate" \in DOMAIN c THEN {c.rate} ELSE Rates

\* The amount is outside [min*rate*995, max*rate*1010] at the given rate.
AmountOutsideFiatBounds(c, row, rate) ==
    \/ AmountReceived(c.amount) * rate.den < row.min * rate.num * FluctuationLow
    \/ AmountReceived(c.amount) * rate.den > row.max * rate.num * FluctuationHigh

\* C5: for a link with currency, a callback whose amount is below
\* min*rate*995 or above max*rate*1010 at the rate of callback time is
\* answered with a protocol error and requests no invoice, and one whose
\* amount is within these bounds is not refused for its amount.
C5_FiatBoundsEnforced ==
    \A p \in Procs :
        Answered(p, CallbackOps) =>
            \A row \in ctx[p].link :
                row.currency # NoCurrency =>
                    /\ (\A rate \in RatesRead(ctx[p]) :
                            AmountOutsideFiatBounds(ctx[p], row, rate))
                         => Rejected(ctx[p])
                    /\ (\A rate \in RatesRead(ctx[p]) :
                            ~AmountOutsideFiatBounds(ctx[p], row, rate))
                         => ctx[p].body \notin {"ERROR_min", "ERROR_max"}

\* ----------------------------------------------------------------- C6
\* C6: a callback whose comment is longer than the link's comment_chars is
\* answered with a protocol error and requests no invoice; an absent or
\* empty comment is never refused for its length.
C6_CommentLengthEnforced ==
    \A p \in Procs :
        Answered(p, CallbackOps) =>
            \A row \in ctx[p].link :
                /\ CommentLen(ctx[p].comment) > row.comment_chars
                     => Rejected(ctx[p])
                /\ CommentLen(ctx[p].comment) = 0
                     => ctx[p].body # "ERROR_comment"

\* ----------------------------------------------------------------- C7
\* C7: a callback has incremented served_pr (its UPDATE matched the link)
\* exactly when it passed every validation and requested the invoice; one
\* answered with a protocol error payload has not.
C7_ServedPrOnlyOnInvoice ==
    \A p \in Procs :
        Answered(p, CallbackOps) => (ctx[p].hit <=> ctx[p].invoice)

\* ----------------------------------------------------------------- C8
\* C8: a request for an unknown link writes nothing and requests no invoice;
\* the address Pay Request answers it with the payload {status: ERROR} and a
\* success status, the direct-id Pay Request and the callback with HTTP 404.
C8_UnknownLinkChannel ==
    \A p \in Procs :
        ( /\ Answered(p, {"address", "response"} \cup CallbackOps)
          /\ ctx[p].link = {}
          /\ ctx[p].http # 422 )
        => /\ ~ctx[p].hit
           /\ ~ctx[p].invoice
           /\ ctx[p].op = "address" => (ctx[p].http = 200 /\ ctx[p].body = "ERROR")
           /\ ctx[p].op # "address" => ctx[p].http = 404

\* ----------------------------------------------------------------- C9
\* link_id's row gains exactly 1 on served_meta in this step; every other
\* field of it and every other row stay as they are.
ServedMetaPlusOne(link_id) ==
    /\ Cardinality(links') = Cardinality(links)
    /\ \A r \in links :
          IF r.id = link_id
          THEN [r EXCEPT !.served_meta = r.served_meta + 1] \in links'
          ELSE r \in links'

\* C9: every successful Pay Request, by direct id or by address, raises the
\* served_meta of its link by exactly 1 and changes nothing else.
C9_EveryPayRequestCounts ==
    [][\A p \in Procs :
          /\ ( /\ pc[p] = "inc_update" /\ ctx[p].op = "response"
               /\ pc'[p] = "inc_get" /\ ctx'[p].hit )
             => ServedMetaPlusOne(ctx[p].id)
          /\ ( /\ pc[p] = "idle" /\ pc'[p] = "done"
               /\ ctx'[p].op = "address" /\ ctx'[p].body = "payRequest" )
             => \A row \in ctx'[p].link : ServedMetaPlusOne(row.id)
      ]_vars

\* ----------------------------------------------------------------- C10
\* C10: between two successive states in which a link exists, served_meta
\* and served_pr do not decrease, and they change only in the UPDATE of an
\* increment call on that link.
C10_CountersMonotone ==
    [][\A r \in links, r2 \in links' :
          r.id = r2.id =>
            /\ r2.served_meta >= r.served_meta
            /\ r2.served_pr >= r.served_pr
            /\ (r2.served_meta # r.served_meta \/ r2.served_pr # r.served_pr)
                 => \E p \in Procs :
                       /\ pc[p] = "inc_update" /\ pc'[p] = "inc_get"
                       /\ ctx[p].id = r.id
      ]_vars


\* ----------------------------------------------------------------- C11
\* C11: the settings table holds at most one row in every reachable state,
\* concurrent get_or_create calls on an empty table included.
C11_AtMostOneSettingsRow == Len(settingsRows) <= 1

\* ----------------------------------------------------------------- C12
\* C12: as long as neither update nor delete was called, every get_or_create
\* call, sequential or concurrent, returns the same key as every other, and
\* that key is the one in the settings row.
C12_KeyGeneratedOnce ==
    undisturbed =>
        \A p \in Procs :
            Answered(p, {"get_or_create"}) =>
                /\ \A q \in Procs :
                       Answered(q, {"get_or_create"}) => ctx[q].key = ctx[p].key
                /\ \A i \in DOMAIN settingsRows : settingsRows[i] = ctx[p].key

\* ----------------------------------------------------------------- C13
\* C13: with requests served one at a time, a completed delete leaves
\* neither a settings row nor a relay file (on an absent store it changes
\* nothing), and a get_or_create that finds no row generates a key never
\* handed out before, persists it as the single row and returns it.
C13_DeleteThenFreshKey ==
    [][\A p \in Procs :
        /\ (pc[p] = "settings_remove" /\ pc'[p] = "done") =>
               /\ settingsRows' = << >>
               /\ ~relayFile'.exists
               /\ (settingsRows = << >> /\ ~relayFile.exists) =>
                      UNCHANGED <<settingsRows, relayFile>>
        /\ (pc[p] = "idle" /\ pc'[p] # "idle" /\ ctx'[p].op = "get_or_create"
                /\ settingsRows = << >>) =>
               /\ pc'[p] = "settings_insert"
               /\ ctx'[p].key > keysMade
        /\ (pc[p] = "settings_insert" /\ pc'[p] = "done") =>
               /\ settingsRows' = <<ctx'[p].key>>
               /\ ctx'[p].generated
    ]_vars

\* A get_or_create after a delete has generated the second key, which is the
\* single row.
C13_Witness ==
    \E p \in Procs :
        /\ Answered(p, {"get_or_create"})
        /\ ctx[p].generated
        /\ ctx[p].key = 2
        /\ settingsRows = <<2>>
        /\ ~relayFile.exists
        /\ ~undisturbed

\* ----------------------------------------------------------------- C14
\* C14: with the relay path configured and a settings row present,
\* update(settings) completes and stores the key and the relay list, and a
\* following get_or_create returns the stored key and the stored relay list.
C14_SettingsRoundTrip ==
    [][\A p \in Procs :
        /\ (pc[p] = "settings_write" /\ relayPath /\ settingsRows # << >>) =>
               /\ pc'[p] = "done"
               /\ ctx'[p].resp = "ok"
               /\ relayFile' = FileOf(ctx[p].relays)
               /\ \A i \in DOMAIN settingsRows' : settingsRows'[i] = ctx[p].key
        /\ (pc[p] = "idle" /\ pc'[p] = "done" /\ ctx'[p].op = "get_or_create"
                /\ relayPath /\ relayFile.exists) =>
               /\ ctx'[p].key = settingsRows[1]
               /\ ctx'[p].relays = relayFile.lines
    ]_vars

\* ----------------------------------------------------------------- C15
\* C15: with requests served one at a time, a create that succeeded returns
\* the record that get(id) returns right after it: its wallet and its
\* user-supplied fields are the request's and both counters are 0.
C15_CreateThenGet ==
    \A p \in Procs :
        (Answered(p, {"create"}) /\ ctx[p].resp = "ok") =>
            /\ GetPayLink(links, ctx[p].id) = ctx[p].link
            /\ \E r \in ctx[p].link :
                /\ ctx[p].link = {r}
                /\ r.id = ctx[p].id
                /\ r.wallet = ctx[p].wallet
                /\ r.username = ctx[p].data.username
                /\ r.min = ctx[p].data.min
                /\ r.max = ctx[p].data.max
                /\ r.currency = ctx[p].data.currency
                /\ r.comment_chars = ctx[p].data.comment_chars
                /\ r.description = ctx[p].data.description
                /\ r.served_meta = 0
                /\ r.served_pr = 0

\* A create with a username has succeeded while another link was stored.
C15_Witness ==
    \E p \in Procs :
        /\ Answered(p, {"create"})
        /\ ctx[p].resp = "ok"
        /\ ctx[p].data.username = "alice"
        /\ \E r \in links : r.id # ctx[p].id /\ r.served_meta > 0

\* ----------------------------------------------------------------- C16
\* C16: the unhashed description a callback passes to invoice creation is
\* the encoded metadata string that step 1 returns for the same link record
\* and the same domain, on the direct-id entry point and, for a link that
\* has an address, on the address entry point.
C16_MetadataMatchesAcrossSteps ==
    \A p \in Procs :
        (Answered(p, CallbackOps) /\ ctx[p].invoice) =>
            \A row \in ctx[p].link :
                /\ ctx[p].unhashed_description =
                       Encode(LnurlpayMetadataAttribute(row))
                /\ Truthy(row.username) =>
                       ctx[p].unhashed_description =
                           Encode(LnurlpayMetadata(row, ctx[p].domain))

\* ----------------------------------------------------------------- C17
\* C17: all stored links have pairwise distinct ids, and under create,
\* update with any field map, increment and delete calls a stored link keeps
\* its id until it is deleted: after every step each link is still stored
\* under its id unless the step deleted it.
C17_IdUniqueAndImmutable ==
    [][/\ \A r1 \in links', r2 \in links' : r1.id = r2.id => r1 = r2
       /\ \A r \in links :
            \/ \E r2 \in links' : r2.id = r.id
            \/ links' = DeleteRows(links, r.id)
    ]_vars

\* ----------------------------------------------------------------- C20
\* C20: an update whose field map carries a non-empty username that a stored
\* link holds, the updated link included, fails with the username-taken
\* condition and writes nothing; an update whose field map has no username,
\* or an empty one, goes to its UPDATE with no uniqueness check.
C20_UpdateUsernameCheck ==
    [][\A p \in Procs :
        (pc[p] = "idle" /\ pc'[p] # "idle" /\ ctx'[p].op = "update") =>
            LET kwargs == ctx'[p].kwargs
                named == /\ "username" \in DOMAIN kwargs
                         /\ kwargs.username \notin {"", NoName}
            IN /\ (named /\ \E r \in links : r.username = kwargs.username) =>
                      /\ pc'[p] = "done"
                      /\ ctx'[p].resp = "username_taken"
                      /\ links' = links
               /\ ~named =>
                      \/ /\ pc'[p] = "update_get"
                         /\ links' = UpdateRows(links, ctx'[p].id, kwargs)
                      \/ /\ pc'[p] = "done"
                         /\ ctx'[p].resp = "integrity_error"
                         /\ links' = links
    ]_vars

\* An update that gives a link the username it already holds has been
\* refused as taken.
C20_Witness ==
    \E p \in Procs :
        /\ Answered(p, {"update"})
        /\ ctx[p].resp = "username_taken"
        /\ \E r \in links : r.id = ctx[p].id /\ r.username = ctx[p].kwargs.username

\* ----------------------------------------------------------------- C18
\* C18: a step-1 response, on the direct-id and on the address entry point,
\* carries minSendable = round(min * rate) * 1000 and maxSendable =
\* round(max * rate) * 1000, where rate is a current fiat rate of the link's
\* currency (the one the handler read, if it read one), or 1 without currency.
C18_SendableBounds ==
    \A p \in Procs :
        (Answered(p, {"address", "response"}) /\ ctx[p].body = "payRequest") =>
            \A row \in ctx[p].link :
                \E rate \in RatesFor(row) :
                    /\ "rate" \in DOMAIN ctx[p] => rate = ctx[p].rate
                    /\ ctx[p].minSendable
                           = PyRound(row.min * rate.num, rate.den) * 1000
                    /\ ctx[p].maxSendable
                           = PyRound(row.max * rate.num, rate.den) * 1000

\* ----------------------------------------------------------------- C19
\* C19: for a link with min <= max and one rate at both steps (1 without
\* currency), a callback whose amount lies within the minSendable and
\* maxSendable that the direct-id step 1 announces at that rate is not
\* refused for its amount.
C19_AnnouncedBoundsAccepted ==
    \A p \in Procs :
        (Answered(p, CallbackOps) /\ ctx[p].amount.present) =>
            \A row \in ctx[p].link :
                \A rate \in (IF "rate" \in DOMAIN ctx[p] THEN {ctx[p].rate}
                                                          ELSE RatesFor(row)) :
                    ( /\ row.min <= row.max
                      /\ MinSendable(row, rate) <= ctx[p].amount.value
                      /\ ctx[p].amount.value <= MaxSendable(row, rate) ) =>
                        ctx[p].body \notin {"ERROR_min", "ERROR_max"}

====
